---- MODULE Spec2Model ----
(***************************************************************************)
(* LinkedConnect campaign engine: src/linkedin_campaign_sync.py and        *)
(* src/config.py as a state machine.                                       *)
(*                                                                         *)
(* The driver (main / run_cycle) walks through one cycle after the other;  *)
(* process_person is stepped call by call, so that an adapter call that    *)
(* raises, or a KeyboardInterrupt delivered between two calls, leaves the  *)
(* record exactly where the Python code leaves it.                         *)
(*                                                                         *)
(* Python values.  A str is the sequence of its characters (constants the  *)
(* code only copies are kept as one chunk); None is a one-element sequence *)
(* holding a marker that is no text; a dict is a function (record) over    *)
(* the keys it holds, {} being the function with the empty domain; a list  *)
(* is a sequence.                                                          *)
(***************************************************************************)
EXTENDS Integers, Sequences, FiniteSets, TLC

VARIABLES
    env,         \* the credentials that are set, and not empty, in the environment
    argv,        \* the flags on the command line
    once,        \* args.once                                   (main, l.204-206)
    mock,        \* cfg.mock                                    (config.py l.41)
    clientMock,  \* self.mock of each of the five adapters      (l.37, 69, 94, 123, 136)
    opaque,      \* the adapters whose code behind the interface is not the
                 \* repository's stub ("please add API logic here")
    state,       \* where the driver is in main / run_cycle
    cycle,       \* cycles started so far
    commenters,  \* run_cycle's local `commenters`
    likers,      \* run_cycle's local `likers`
    i,           \* index of the record the current for-loop is at
    pc,          \* where process_person is
    person,      \* process_person's argument
    enriched,    \* process_person's local `enriched`
    email,       \* process_person's local `email`
    existing,    \* process_person's local `existing`
    calls,       \* the adapter calls issued for the current record, in order
    processed,   \* process_person applications in the current cycle
    triggers,    \* trigger_next_phantom invocations in the current cycle
    waited,      \* seconds slept by run_cycle in the current cycle
    failedAt,    \* the adapter call that raised, or "none"
    halt,        \* what stopped the process where `state` and `pc` stand:
                 \* "none", "exception" (uncaught) or "KeyboardInterrupt"
    audit,       \* whether the run's store traffic is tallied in `ledger`
    ledger       \* history: per email, the lookups answered with / without a
                 \* match and the create / update calls issued, over the run

vars == <<env, argv, audit, ledger, clientMock, once, mock, opaque, state, cycle,
          commenters, likers, i, pc, person, enriched, email, existing, calls,
          processed, triggers, waited, failedAt, halt>>

(***************************************************************************)
(* Bounds of the model.                                                    *)
(***************************************************************************)
\* cycles the loop-mode driver is followed for
MaxCycles == 2
\* longest batch an opaque feed returns
MaxBatch == 2

(***************************************************************************)
(* Python values and the str / dict / list operations the code uses.       *)
(***************************************************************************)
None == <<"<None>">>

EmptyDict == <<>>

\* d.get(k), d.get(k, default)
Get(d, k) == IF k \in DOMAIN d THEN d[k] ELSE None

GetOr(d, k, default) == IF k \in DOMAIN d THEN d[k] ELSE default

\* bool(x) of a str-or-None value
Truthy(v) == v # None /\ v # <<>>

UpperCase == <<"A", "B", "C", "D", "E", "F", "G", "H", "I", "J", "K", "L", "M",
               "N", "O", "P", "Q", "R", "S", "T", "U", "V", "W", "X", "Y", "Z">>

LowerCase == <<"a", "b", "c", "d", "e", "f", "g", "h", "i", "j", "k", "l", "m",
               "n", "o", "p", "q", "r", "s", "t", "u", "v", "w", "x", "y", "z">>

LowerChar(c) ==
    IF \E n \in DOMAIN UpperCase : UpperCase[n] = c
    THEN LowerCase[CHOOSE n \in DOMAIN UpperCase : UpperCase[n] = c]
    ELSE c

\* str.lower()
Lower(s) == [n \in DOMAIN s |-> LowerChar(s[n])]

\* sub in s
Contains(sub, s) ==
    \E n \in 1..(Len(s) - Len(sub) + 1) : SubSeq(s, n, n + Len(sub) - 1) = sub

(***************************************************************************)
(* config.py                                                               *)
(***************************************************************************)
Credentials == {"PHANTOMBUSTER_API_KEY", "DROPCONTACT_API_KEY", "AIRTABLE_API_KEY",
                "AIRTABLE_BASE_ID", "LEMLIST_API_KEY", "HUBSPOT_API_KEY"}

\* faulty variant of load_from_env: the base id is left out of the test of l.41
load_from_env_NoBaseId(environ) ==
    ~(\A c \in Credentials \ {"AIRTABLE_BASE_ID"} : c \in environ)

\* an environment is the set of credentials that are set and non-empty;
\* the value is cfg.mock
load_from_env(environ) == ~(\A c \in Credentials : c \in environ)

Adapters == {"phantombuster", "dropcontact", "airtable", "lemlist", "hubspot"}

\* l.204: the flags of the command line that change the control flow
Flags == {"--once"}

\* l.204-206: args.once (action="store_true": False unless the flag is given)
parse_once(flags) == "--once" \in flags

(***************************************************************************)
(* Records of the feed.                                                    *)
(***************************************************************************)
Ada == [first_name |-> <<"A", "d", "a">>,
        last_name |-> <<"L", "o", "v", "e", "l", "a", "c", "e">>,
        profile_url |-> <<"https://linkedin.example/ada">>]

Alan == [first_name |-> <<"A", "l", "a", "n">>,
         last_name |-> <<"T", "u", "r", "i", "n", "g">>,
         profile_url |-> <<"https://linkedin.example/alan">>]

Grace == [first_name |-> <<"G", "r", "a", "c", "e">>,
          last_name |-> <<"H", "o", "p", "p", "e", "r">>,
          profile_url |-> <<"https://linkedin.example/grace">>]

\* a record only a feed other than the mock returns
Newt == [first_name |-> <<"N", "e", "w", "t">>,
         last_name |-> <<"S", "c", "a", "m", "a", "n", "d", "e", "r">>,
         profile_url |-> <<"https://linkedin.example/newt">>]

Persons == {Ada, Newt}

RECURSIVE SeqsUpTo(_, _)
SeqsUpTo(S, n) ==
    IF n = 0 THEN {<<>>}
    ELSE LET shorter == SeqsUpTo(S, n - 1)
         IN  shorter \cup {Append(s, x) : s \in {t \in shorter : Len(t) = n - 1}, x \in S}

Batches == SeqsUpTo(Persons, MaxBatch)

(***************************************************************************)
(* The five adapters.  Each operator is the set of values the call may     *)
(* return.  An adapter of `opaque` stands for any implementation of the    *)
(* interface (the code a deployment puts where the stub says "please add   *)
(* API logic here", or a fake handed to process_person through `clients`): *)
(* it may return any value of the declared return type, or raise.  An      *)
(* adapter outside `opaque` is the class as written, mock or not.          *)
(***************************************************************************)
Raises(adapter) == adapter \in opaque

MockCommenters == <<Ada, Alan>>

MockLikers == <<Grace>>

\* faulty variant of fetch_post_commenters: the sample records are returned
\* whatever the mode
fetch_post_commenters_AlwaysSample ==
    IF "phantombuster" \in opaque THEN Batches ELSE {MockCommenters}

fetch_post_commenters ==
    IF "phantombuster" \in opaque THEN Batches
    ELSE IF clientMock["phantombuster"] THEN {MockCommenters} ELSE {<<>>}

fetch_post_likers ==
    IF "phantombuster" \in opaque THEN Batches
    ELSE IF clientMock["phantombuster"] THEN {MockLikers} ELSE {<<>>}

trigger_next_phantom ==
    IF "phantombuster" \in opaque THEN BOOLEAN
    ELSE IF clientMock["phantombuster"] THEN {TRUE} ELSE {FALSE}

ExampleDomain == <<"@", "e", "x", "a", "m", "p", "l", "e", ".", "c", "o", "m">>

\* the dict DropcontactClient.enrich builds in mock mode
MockProfile(p) ==
    [full_name |-> GetOr(p, "first_name", <<>>) \o <<" ">> \o GetOr(p, "last_name", <<>>),
     first_name |-> Get(p, "first_name"),
     last_name |-> Get(p, "last_name"),
     email |-> << [email |-> Lower(GetOr(p, "first_name", <<>>)) \o ExampleDomain] >>,
     phone |-> <<>>,
     linkedin |-> Get(p, "profile_url"),
     company |-> <<"Example Ltd">>,
     website |-> <<"https://example.com">>]

OtherEmail == <<"o", "@", "x", ".", "i", "o">>

\* the email lists an enrichment service may answer with for p
EmailLists(p) ==
    LET e == Lower(GetOr(p, "first_name", <<>>)) \o ExampleDomain
    IN  { <<>>,
          << EmptyDict >>,
          << [email |-> <<>>] >>,
          << [email |-> e] >>,
          << EmptyDict, [email |-> e] >>,
          << [email |-> e], [email |-> OtherEmail] >> }

WithoutKey(d, k) == [x \in DOMAIN d \ {k} |-> d[x]]

OpaqueProfiles(p) ==
    {[MockProfile(p) EXCEPT !.email = l] : l \in EmailLists(p)}
        \cup {WithoutKey(MockProfile(p), "email"), EmptyDict}

enrich(p) ==
    IF "dropcontact" \in opaque THEN OpaqueProfiles(p)
    ELSE IF clientMock["dropcontact"] THEN {MockProfile(p)} ELSE {EmptyDict}

OpaqueMatches(e) ==
    { <<>>,
      << [id |-> "rec123", fields |-> [Email |-> e]] >>,
      << [id |-> "recA", fields |-> [Email |-> e]],
         [id |-> "recB", fields |-> [Email |-> e]] >> }

list_records_matching_email(e) ==
    IF "airtable" \in opaque THEN OpaqueMatches(e)
    ELSE IF clientMock["airtable"]
         THEN IF Contains(<<"n", "e", "w">>, e)
              THEN {<<>>}
              ELSE {<< [id |-> "rec123", fields |-> [Email |-> e]] >>}
         ELSE {<<>>}

create_record(fields) ==
    IF "airtable" \in opaque THEN {[id |-> "rec_new", fields |-> fields], EmptyDict}
    ELSE IF clientMock["airtable"] THEN {[id |-> "rec_new", fields |-> fields]}
    ELSE {EmptyDict}

update_record(record_id, fields) ==
    IF "airtable" \in opaque THEN {[id |-> record_id, fields |-> fields], EmptyDict}
    ELSE IF clientMock["airtable"] THEN {[id |-> record_id, fields |-> fields]}
    ELSE {EmptyDict}

add_lead(lead) ==
    IF "lemlist" \in opaque THEN BOOLEAN
    ELSE IF clientMock["lemlist"] THEN {TRUE} ELSE {FALSE}

upsert_contact(contact) ==
    IF "hubspot" \in opaque THEN BOOLEAN
    ELSE IF clientMock["hubspot"] THEN {TRUE} ELSE {FALSE}

\* bool(x) of a returned dict or list, and of a returned bool, as an outcome
DictOutcome(d) == IF DOMAIN d # {} THEN "truthy" ELSE "falsy"

BoolOutcome(b) == IF b THEN "truthy" ELSE "falsy"

\* one entry of `calls`
Call(op, id, arg, outcome) == [op |-> op, id |-> id, arg |-> arg, outcome |-> outcome]

(***************************************************************************)
(* process_person, l.148-199                                               *)
(***************************************************************************)
\* faulty variant of ResolveEmail: the last entry of the list is taken
ResolveEmail_LastEntry(e) ==
    LET has == "email" \in DOMAIN e /\ e["email"] # <<>>
        lst == IF has THEN e["email"] ELSE << EmptyDict >>
    IN  IF has THEN Get(lst[Len(lst)], "email") ELSE None

\* l.155: (enriched.get('email') or [{}])[0].get('email')
\*        if enriched.get('email') else None
ResolveEmail(e) ==
    LET has == "email" \in DOMAIN e /\ e["email"] # <<>>
        lst == IF has THEN e["email"] ELSE << EmptyDict >>
    IN  IF has THEN Get(lst[1], "email") ELSE None

\* faulty variant of UpdateFields: the update overwrites Name as well
UpdateFields_WithName(e, em) ==
    ("Name" :> Get(e, "full_name"))
        @@ ("Email" :> em)
        @@ ("Phone" :> Get(e, "phone"))
        @@ ("LinkedIn" :> Get(e, "linkedin"))
        @@ ("Account" :> Get(e, "company"))
        @@ ("Company website" :> Get(e, "website"))

\* l.165-171
UpdateFields(e, em) ==
    ("Email" :> em)
        @@ ("Phone" :> Get(e, "phone"))
        @@ ("LinkedIn" :> Get(e, "linkedin"))
        @@ ("Account" :> Get(e, "company"))
        @@ ("Company website" :> Get(e, "website"))

\* l.174-181
CreateFields(e, em) ==
    ("Name" :> Get(e, "full_name"))
        @@ ("Account" :> Get(e, "company"))
        @@ ("Company website" :> Get(e, "website"))
        @@ ("Email" :> em)
        @@ ("Phone" :> Get(e, "phone"))
        @@ ("LinkedIn" :> Get(e, "linkedin"))

\* l.185-190
LeadPayload(e, em) ==
    [email |-> em,
     firstName |-> Get(e, "first_name"),
     lastName |-> Get(e, "last_name"),
     companyName |-> Get(e, "company")]

\* l.193-199
ContactPayload(e, em) ==
    [email |-> em,
     firstName |-> Get(e, "first_name"),
     lastName |-> Get(e, "last_name"),
     company |-> Get(e, "company"),
     phone |-> Get(e, "phone")]

Running == halt = "none"

\* the tally of one email in `ledger`
NoTally == [found |-> 0, missing |-> 0, creates |-> 0, updates |-> 0]

Bump(l, e, k) ==
    LET old == IF e \in DOMAIN l THEN l[e] ELSE NoTally
    IN  [x \in DOMAIN l \cup {e} |-> IF x = e THEN [old EXCEPT ![k] = @ + 1] ELSE l[x]]

\* the history variable takes note of a store lookup or store call for e
Tally(e, k) == ledger' = IF audit THEN Bump(ledger, e, k) ELSE ledger

InPerson == Running /\ state \in {"PROCESSING_COMMENTERS", "PROCESSING_LIKERS"}

\* an exception leaves the adapter call `op`: nothing in process_person,
\* run_cycle or main catches it (main catches KeyboardInterrupt only, l.256)
Propagate(op) ==
    /\ failedAt' = op
    /\ halt' = "exception"
    /\ UNCHANGED state

\* l.154-156
Enrich ==
    /\ InPerson /\ pc = "enrich"
    /\ \/ /\ \E e \in enrich(person) :
                /\ enriched' = e
                /\ email' = ResolveEmail(e)
                /\ calls' = Append(calls, Call("enrich", None, person, DictOutcome(e)))
          /\ pc' = "check"
          /\ UNCHANGED <<state, failedAt, halt>>
       \/ /\ Raises("dropcontact")
          /\ calls' = Append(calls, Call("enrich", None, person, "raised"))
          /\ Propagate("enrich")
          /\ UNCHANGED <<pc, enriched, email>>
    /\ UNCHANGED <<env, argv, audit, ledger, clientMock, once, mock, opaque, cycle,
                   commenters, likers, i, person, existing, processed, triggers,
                   waited>>

\* faulty variant of CheckEmail: the early return of l.160 is forgotten
CheckEmail_NoSkip ==
    /\ InPerson /\ pc = "check"
    /\ pc' = "find"
    /\ UNCHANGED <<env, argv, audit, ledger, clientMock, once, mock, opaque, state,
                   cycle, commenters, likers, i, person, enriched, email, existing,
                   calls, processed, triggers, waited, failedAt, halt>>

\* l.158-160
CheckEmail ==
    /\ InPerson /\ pc = "check"
    /\ pc' = IF ~Truthy(email) THEN "ret" ELSE "find"
    /\ UNCHANGED <<env, argv, audit, ledger, clientMock, once, mock, opaque, state,
                   cycle, commenters, likers, i, person, enriched, email, existing,
                   calls, processed, triggers, waited, failedAt, halt>>

\* l.162
Find ==
    /\ InPerson /\ pc = "find"
    /\ \/ /\ \E found \in list_records_matching_email(email) :
                /\ existing' = found
                /\ calls' = Append(calls, Call("list_records_matching_email", None, email,
                                               IF found # <<>> THEN "truthy" ELSE "falsy"))
                /\ Tally(email, IF found # <<>> THEN "found" ELSE "missing")
          /\ pc' = "store"
          /\ UNCHANGED <<state, failedAt, halt>>
       \/ /\ Raises("airtable")
          /\ calls' = Append(calls, Call("list_records_matching_email", None, email, "raised"))
          /\ Propagate("list_records_matching_email")
          /\ UNCHANGED <<pc, existing, ledger>>
    /\ UNCHANGED <<env, argv, audit, clientMock, once, mock, opaque, cycle, commenters,
                   likers, i, person, enriched, email, processed, triggers, waited>>

\* faulty variant of StoreCall: the test of l.163 is inverted
StoreCall_Inverted ==
    IF existing = <<>>
    THEN [op |-> "update_record", id |-> None, arg |-> UpdateFields(enriched, email)]
    ELSE [op |-> "create_record", id |-> None, arg |-> CreateFields(enriched, email)]

\* faulty variant of StoreCall: l.164 takes the last match, not the first
StoreCall_LastMatch ==
    IF existing # <<>>
    THEN [op |-> "update_record", id |-> existing[Len(existing)]["id"],
          arg |-> UpdateFields(enriched, email)]
    ELSE [op |-> "create_record", id |-> None, arg |-> CreateFields(enriched, email)]

\* faulty variant of StoreCall: the lookup result is ignored and a record is
\* created every time
StoreCall_AlwaysCreate ==
    [op |-> "create_record", id |-> None, arg |-> CreateFields(enriched, email)]

\* l.163-182: the call the branch issues, as (op, record id, field-set)
StoreCall ==
    IF existing # <<>>
    THEN [op |-> "update_record", id |-> existing[1]["id"], arg |-> UpdateFields(enriched, email)]
    ELSE [op |-> "create_record", id |-> None, arg |-> CreateFields(enriched, email)]

StoreResults(c) ==
    IF c.op = "update_record" THEN update_record(c.id, c.arg) ELSE create_record(c.arg)

Store ==
    /\ InPerson /\ pc = "store"
    /\ LET c == StoreCall
       IN  /\ \/ /\ \E r \in StoreResults(c) :
                       calls' = Append(calls, Call(c.op, c.id, c.arg, DictOutcome(r)))
                 /\ pc' = "lead"
                 /\ UNCHANGED <<state, failedAt, halt>>
              \/ /\ Raises("airtable")
                 /\ calls' = Append(calls, Call(c.op, c.id, c.arg, "raised"))
                 /\ Propagate(c.op)
                 /\ UNCHANGED pc
           /\ Tally(c.arg["Email"], IF c.op = "update_record" THEN "updates" ELSE "creates")
    /\ UNCHANGED <<env, argv, audit, clientMock, once, mock, opaque, cycle, commenters,
                   likers, i, person, enriched, email, existing, processed, triggers, waited>>

\* l.185-190
AddLead ==
    /\ InPerson /\ pc = "lead"
    /\ LET lead == LeadPayload(enriched, email)
       IN  \/ /\ \E r \in add_lead(lead) :
                    calls' = Append(calls, Call("add_lead", None, lead, BoolOutcome(r)))
              /\ pc' = "crm"
              /\ UNCHANGED <<state, failedAt, halt>>
           \/ /\ Raises("lemlist")
              /\ calls' = Append(calls, Call("add_lead", None, lead, "raised"))
              /\ Propagate("add_lead")
              /\ UNCHANGED pc
    /\ UNCHANGED <<env, argv, audit, ledger, clientMock, once, mock, opaque, cycle,
                   commenters, likers, i, person, enriched, email, existing, processed,
                   triggers, waited>>

\* l.193-199
UpsertContact ==
    /\ InPerson /\ pc = "crm"
    /\ LET contact == ContactPayload(enriched, email)
       IN  \/ /\ \E r \in upsert_contact(contact) :
                    calls' = Append(calls, Call("upsert_contact", None, contact, BoolOutcome(r)))
              /\ pc' = "ret"
              /\ UNCHANGED <<state, failedAt, halt>>
           \/ /\ Raises("hubspot")
              /\ calls' = Append(calls, Call("upsert_contact", None, contact, "raised"))
              /\ Propagate("upsert_contact")
              /\ UNCHANGED pc
    /\ UNCHANGED <<env, argv, audit, ledger, clientMock, once, mock, opaque, cycle,
                   commenters, likers, i, person, enriched, email, existing, processed,
                   triggers, waited>>

(***************************************************************************)
(* main and run_cycle, l.202-257                                           *)
(***************************************************************************)
\* the pause of l.229, in seconds
WaitSeconds == 30

NoRecord ==
    /\ pc' = "idle"
    /\ person' = EmptyDict
    /\ enriched' = EmptyDict
    /\ email' = None
    /\ existing' = <<>>
    /\ calls' = <<>>

\* l.203-222: the arguments are parsed, the configuration is loaded and the
\* five adapters are constructed from it
Startup ==
    /\ Running /\ state = "START"
    /\ once' = parse_once(argv)
    /\ LET cfg_mock == load_from_env(env)
       IN  /\ mock' = cfg_mock
           /\ clientMock' = [a \in Adapters |-> cfg_mock]
    /\ state' = "IDLE"
    /\ UNCHANGED <<env, argv, audit, ledger, opaque, cycle, commenters, likers, i, pc,
                   person, enriched, email, existing, calls, processed, triggers,
                   waited, failedAt, halt>>

\* l.245-246 / l.252-253: run_cycle is entered
StartCycle ==
    /\ Running /\ state = "IDLE"
    /\ cycle < MaxCycles
    /\ state' = "FETCHING_COMMENTERS"
    /\ cycle' = cycle + 1
    /\ commenters' = <<>>
    /\ likers' = <<>>
    /\ i' = 1
    /\ processed' = 0
    /\ triggers' = 0
    /\ waited' = 0
    /\ NoRecord
    /\ UNCHANGED <<env, argv, audit, ledger, clientMock, once, mock, opaque, failedAt,
                   halt>>

\* l.226
FetchCommenters ==
    /\ Running /\ state = "FETCHING_COMMENTERS"
    /\ \/ /\ commenters' \in fetch_post_commenters
          /\ state' = "DELAY"
          /\ UNCHANGED <<failedAt, halt>>
       \/ /\ Raises("phantombuster")
          /\ Propagate("fetch_post_commenters")
          /\ UNCHANGED commenters
    /\ UNCHANGED <<env, argv, audit, ledger, clientMock, once, mock, opaque, cycle,
                   likers, i, pc, person, enriched, email, existing, calls, processed,
                   triggers, waited>>

\* faulty variant of Delay: the commenters are processed without the pause
Delay_NoPause ==
    /\ Running /\ state = "DELAY"
    /\ state' = "PROCESSING_COMMENTERS"
    /\ i' = 1
    /\ UNCHANGED <<env, argv, audit, ledger, clientMock, once, mock, opaque, cycle,
                   commenters, likers, pc, person, enriched, email, existing, calls,
                   processed, triggers, waited, failedAt, halt>>

\* l.228-230
Delay ==
    /\ Running /\ state = "DELAY"
    /\ waited' = waited + WaitSeconds
    /\ state' = "PROCESSING_COMMENTERS"
    /\ i' = 1
    /\ UNCHANGED <<env, argv, audit, ledger, clientMock, once, mock, opaque, cycle,
                   commenters, likers, pc, person, enriched, email, existing, calls,
                   processed, triggers, failedAt, halt>>

\* faulty variant of CallPerson: the next record is started without waiting for
\* the calls of the previous one
CallPerson_Overlapping(batch) ==
    /\ i <= Len(batch)
    /\ person' = batch[i]
    /\ i' = i + 1
    /\ pc' = "enrich"
    /\ processed' = processed + 1
    /\ enriched' = EmptyDict
    /\ email' = None
    /\ existing' = <<>>
    /\ calls' = <<>>

\* the body of a for-loop is entered with the next record: process_person(p, ...)
CallPerson(batch) ==
    /\ pc \in {"idle", "ret"}
    /\ i <= Len(batch)
    /\ person' = batch[i]
    /\ i' = i + 1
    /\ pc' = "enrich"
    /\ processed' = processed + 1
    /\ enriched' = EmptyDict
    /\ email' = None
    /\ existing' = <<>>
    /\ calls' = <<>>

\* l.232-233
NextCommenter ==
    /\ Running /\ state = "PROCESSING_COMMENTERS"
    /\ CallPerson(commenters)
    /\ UNCHANGED <<env, argv, audit, ledger, clientMock, once, mock, opaque, state,
                   cycle, commenters, likers, triggers, waited, failedAt, halt>>

\* l.232: the commenters are exhausted
CommentersDone ==
    /\ Running /\ state = "PROCESSING_COMMENTERS"
    /\ pc \in {"idle", "ret"}
    /\ i > Len(commenters)
    /\ state' = "FETCHING_LIKERS"
    /\ NoRecord
    /\ UNCHANGED <<env, argv, audit, ledger, clientMock, once, mock, opaque, cycle,
                   commenters, likers, i, processed, triggers, waited, failedAt, halt>>

\* l.235-236
FetchLikers ==
    /\ Running /\ state = "FETCHING_LIKERS"
    /\ \/ /\ likers' \in fetch_post_likers
          /\ state' = "PROCESSING_LIKERS"
          /\ i' = 1
          /\ UNCHANGED <<failedAt, halt>>
       \/ /\ Raises("phantombuster")
          /\ Propagate("fetch_post_likers")
          /\ UNCHANGED <<likers, i>>
    /\ UNCHANGED <<env, argv, audit, ledger, clientMock, once, mock, opaque, cycle,
                   commenters, pc, person, enriched, email, existing, calls, processed,
                   triggers, waited>>

\* l.237-238
NextLiker ==
    /\ Running /\ state = "PROCESSING_LIKERS"
    /\ CallPerson(likers)
    /\ UNCHANGED <<env, argv, audit, ledger, clientMock, once, mock, opaque, state,
                   cycle, commenters, likers, triggers, waited, failedAt, halt>>

\* l.237: the likers are exhausted
LikersDone ==
    /\ Running /\ state = "PROCESSING_LIKERS"
    /\ pc \in {"idle", "ret"}
    /\ i > Len(likers)
    /\ state' = "TRIGGERING_NEXT"
    /\ NoRecord
    /\ UNCHANGED <<env, argv, audit, ledger, clientMock, once, mock, opaque, cycle,
                   commenters, likers, i, processed, triggers, waited, failedAt, halt>>

\* l.241-243, then l.247 (--once: return) or l.254 (loop mode: go to sleep)
Trigger ==
    /\ Running /\ state = "TRIGGERING_NEXT"
    /\ \/ /\ \E r \in trigger_next_phantom : triggers' = triggers + 1
          /\ state' = IF once THEN "RETURNED" ELSE "SLEEPING"
          /\ UNCHANGED <<failedAt, halt>>
       \/ /\ Raises("phantombuster")
          /\ triggers' = triggers + 1
          /\ Propagate("trigger_next_phantom")
    /\ UNCHANGED <<env, argv, audit, ledger, clientMock, once, mock, opaque, cycle,
                   commenters, likers, i, pc, person, enriched, email, existing, calls,
                   processed, waited>>

\* l.255, then back to `while True`
Sleep ==
    /\ Running /\ state = "SLEEPING"
    /\ state' = "IDLE"
    /\ UNCHANGED <<env, argv, audit, ledger, clientMock, once, mock, opaque, cycle,
                   commenters, likers, i, pc, person, enriched, email, existing, calls,
                   processed, triggers, waited, failedAt, halt>>

\* Ctrl-C: Python raises KeyboardInterrupt in the main thread wherever it is.
\* In loop mode l.256 catches it and main returns; with --once nothing
\* catches it and the interpreter exits.  Either way the process is over,
\* with the record in flight left where it was.
KeyboardInterrupt ==
    /\ Running /\ state # "RETURNED"
    /\ halt' = "KeyboardInterrupt"
    /\ UNCHANGED <<env, argv, audit, ledger, clientMock, once, mock, opaque, state,
                   cycle, commenters, likers, i, pc, person, enriched, email, existing,
                   calls, processed, triggers, waited, failedAt>>

\* the sets of adapters taken to be opaque: none, one, or all of them
OpaqueSets == {{}, Adapters} \cup {{a} : a \in Adapters}

\* the environments the driver is followed in: every credential set, or none
Environments == {Credentials, {}}

\* The process before main's first statement, for an environment of `envs`, with
\* the adapters of a set of `opaques` opaque.  once, mock and clientMock are
\* not assigned before Startup; FALSE stands for that.
Begin(envs, opaques, tallying) ==
    /\ env \in envs
    /\ argv \in SUBSET Flags
    /\ opaque \in opaques
    /\ audit = tallying
    /\ ledger = <<>>
    /\ once = FALSE
    /\ mock = FALSE
    /\ clientMock = [a \in Adapters |-> FALSE]
    /\ state = "START"
    /\ cycle = 0
    /\ commenters = <<>>
    /\ likers = <<>>
    /\ i = 1
    /\ pc = "idle"
    /\ person = EmptyDict
    /\ enriched = EmptyDict
    /\ email = None
    /\ existing = <<>>
    /\ calls = <<>>
    /\ processed = 0
    /\ triggers = 0
    /\ waited = 0
    /\ failedAt = "none"
    /\ halt = "none"

Init == Begin(Environments, OpaqueSets, FALSE)

Next ==
    \/ Startup
    \/ StartCycle
    \/ FetchCommenters
    \/ Delay
    \/ NextCommenter
    \/ Enrich
    \/ CheckEmail
    \/ Find
    \/ Store
    \/ AddLead
    \/ UpsertContact
    \/ CommentersDone
    \/ FetchLikers
    \/ NextLiker
    \/ LikersDone
    \/ Trigger
    \/ Sleep
    \/ KeyboardInterrupt

Spec == Init /\ [][Next]_vars

\* Startup alone, in every environment: Config.load_from_env as a function of
\* the environment
InitConfig == Begin(SUBSET Credentials, OpaqueSets, FALSE)

SpecConfig == InitConfig /\ [][Startup]_vars

\* The driver with the store traffic of the run tallied, with at most one
\* adapter opaque
InitLedger == Begin(Environments, {S \in OpaqueSets : Cardinality(S) <= 1}, TRUE)

SpecLedger == InitLedger /\ [][Next]_vars

(***************************************************************************)
(* What the claims speak of.                                               *)
(***************************************************************************)
StoreOps == {"create_record", "update_record"}

WriteOps == StoreOps \cup {"add_lead", "upsert_contact"}

\* the calls process_person makes for one record
RecordOps == WriteOps \cup {"enrich", "list_records_matching_email"}

FetchOps == {"fetch_post_commenters", "fetch_post_likers"}

\* how many calls of `op` were issued for the current record
CallsOf(op) == Cardinality({n \in DOMAIN calls : calls[n].op = op})

\* how many of the record's three writes were issued (the store write is one)
WritesIssued == Cardinality({n \in DOMAIN calls : calls[n].op \in WriteOps})

\* enrichment has returned for the current record
EnrichReturned == pc \in {"check", "find", "store", "lead", "crm", "ret"}

\* the enrichment result has no resolvable email: the list is missing or
\* empty, or its first entry has no non-empty email
NoResolvableEmail(e) ==
    \/ "email" \notin DOMAIN e
    \/ e["email"] = <<>>
    \/ "email" \notin DOMAIN e["email"][1]
    \/ e["email"][1]["email"] \in {<<>>, None}

\* the record has a resolvable email and find-by-email has returned for it
LookedUp ==
    /\ EnrichReturned
    /\ ~NoResolvableEmail(enriched)
    /\ pc \in {"store", "lead", "crm", "ret"}

\* ... and control has left the store step, normally or by the store call raising
StoreStepLeft ==
    /\ LookedUp
    /\ \/ pc \in {"lead", "crm", "ret"}
       \/ halt = "exception" /\ failedAt \in StoreOps

\* process_person is over for the current record: it returned, or an
\* exception of one of its calls left it
RecordOver ==
    \/ pc = "ret"
    \/ halt = "exception" /\ failedAt \in RecordOps

\* the process is over
Terminated == state = "RETURNED" \/ halt # "none"

\* C1: a record whose enrichment result has no resolvable email gets no store
\* create/update, no add_lead and no upsert_contact call, and process_person
\* goes from the check of l.158 straight to its return, without an exception.
C1_NoEmailNoWrites ==
    (EnrichReturned /\ NoResolvableEmail(enriched)) =>
        /\ WritesIssued = 0
        /\ CallsOf("list_records_matching_email") = 0
        /\ pc \in {"check", "ret"}
        /\ failedAt = "none"

\* a record whose first email entry is empty has been skipped and has returned
C1_Witness ==
    /\ Running /\ pc = "ret"
    /\ NoResolvableEmail(enriched)
    /\ "email" \in DOMAIN enriched /\ enriched["email"] # <<>>
    /\ Len(calls) = 1 /\ calls[1].op = "enrich"

\* C2: for a record with a resolvable email whose find-by-email returned an
\* empty sequence there is never an update call and never more than one create
\* call, and once the store step is left exactly one create call was issued.
C2_EmptyLookupCreatesOnce ==
    (LookedUp /\ existing = <<>>) =>
        /\ CallsOf("update_record") = 0
        /\ CallsOf("create_record") <= 1
        /\ StoreStepLeft => CallsOf("create_record") = 1
        /\ ~StoreStepLeft => CallsOf("create_record") = 0

\* the record of an unknown email has been created and the call has returned
C2_Witness ==
    /\ Running /\ pc = "ret"
    /\ LookedUp /\ existing = <<>>
    /\ CallsOf("create_record") = 1

\* C3: for a record with a resolvable email whose find-by-email returned a
\* non-empty sequence, of any length, there is never a create call and never
\* more than one update call; once the store step is left exactly one update
\* call was issued, and its record id is the id of the first match.
C3_MatchUpdatesFirstOnce ==
    (LookedUp /\ existing # <<>>) =>
        /\ CallsOf("create_record") = 0
        /\ CallsOf("update_record") <= 1
        /\ StoreStepLeft => CallsOf("update_record") = 1
        /\ ~StoreStepLeft => CallsOf("update_record") = 0
        /\ \A n \in DOMAIN calls :
               calls[n].op = "update_record" => calls[n].id = existing[1]["id"]

\* two matches were found and the first one has been updated
C3_Witness ==
    /\ Running /\ pc = "ret"
    /\ LookedUp /\ Len(existing) = 2
    /\ existing[1]["id"] # existing[2]["id"]
    /\ CallsOf("update_record") = 1

\* C4: every record with a resolvable email that reached the store branch and
\* whose processing is over (it returned, or an exception left it) had exactly
\* one add_lead and exactly one upsert_contact call, whichever branch was taken.
C4_LeadAndContactOncePerRecord ==
    (LookedUp /\ RecordOver) =>
        /\ CallsOf("add_lead") = 1
        /\ CallsOf("upsert_contact") = 1

UpdateKeys == {"Email", "Phone", "LinkedIn", "Account", "Company website"}

CreateKeys == {"Name", "Account", "Company website", "Email", "Phone", "LinkedIn"}

\* C5: the field-set of every update call is exactly {Email, Phone, LinkedIn,
\* Account, Company website}, without Name; the field-set of every create call
\* is exactly {Name, Account, Company website, Email, Phone, LinkedIn}, and its
\* Name is the enriched full name.
C5_FieldSets ==
    \A n \in DOMAIN calls :
        /\ calls[n].op = "update_record" =>
               /\ DOMAIN calls[n].arg = UpdateKeys
               /\ "Name" \notin DOMAIN calls[n].arg
        /\ calls[n].op = "create_record" =>
               /\ DOMAIN calls[n].arg = CreateKeys
               /\ calls[n].arg["Name"] = Get(enriched, "full_name")

\* an update was issued for a profile that does carry a full name
C5_Witness ==
    /\ Truthy(Get(enriched, "full_name"))
    /\ \E n \in DOMAIN calls : calls[n].op = "update_record"

\* C6: when one downstream write of a record failed (raised, or returned a
\* falsy value) and the processing of that record is over, add_lead and
\* upsert_contact have both been attempted.
C6_FailedWriteDoesNotBlockTheRest ==
    \A n \in DOMAIN calls :
        (/\ calls[n].op \in WriteOps
         /\ calls[n].outcome \in {"raised", "falsy"}
         /\ RecordOver) =>
            /\ CallsOf("add_lead") = 1
            /\ CallsOf("upsert_contact") = 1

\* C7: no failure of a record's enrichment or downstream writes ends the run:
\* the process is never stopped by an exception of a call of process_person,
\* so the later records and the trigger of the cycle are still reached.
C7_RecordFailureNeverAbortsRun ==
    ~(halt = "exception" /\ failedAt \in RecordOps)

\* C8: in loop mode a failing feed fetch does not stop the driver.
C8_FetchFailureSurvivedInLoopMode ==
    ~(~once /\ halt = "exception" /\ failedAt \in FetchOps)

\* C9: no state in which the driver has terminated, by returning or on an
\* external interrupt, has a record with some but not all of its three writes
\* attempted.
C9_NoPartialRecordAtTermination ==
    (state = "RETURNED" \/ halt = "KeyboardInterrupt") => WritesIssued \in {0, 3}

\* both fetches of the current cycle have returned
BothFetched ==
    state \in {"PROCESSING_LIKERS", "TRIGGERING_NEXT", "SLEEPING", "RETURNED"}
        \/ (state = "IDLE" /\ cycle > 0)

\* the current cycle is over: run_cycle returned, or an exception left it
CycleOver ==
    state \in {"SLEEPING", "RETURNED"}
        \/ (state = "IDLE" /\ cycle > 0)
        \/ halt = "exception"

\* C10: in a cycle whose feed returned N commenters and M likers,
\* process_person is applied exactly N + M times and the trigger is invoked
\* exactly once, and not before the last record has been processed.
C10_CycleProcessesAllThenTriggersOnce ==
    /\ (BothFetched /\ CycleOver) =>
           /\ processed = Len(commenters) + Len(likers)
           /\ triggers = 1
    /\ triggers > 0 =>
           /\ processed = Len(commenters) + Len(likers)
           /\ pc = "idle"
    /\ triggers <= 1

(***************************************************************************)
(* The store traffic of a whole run, per email (SpecLedger)                *)
(***************************************************************************)
\* find-by-email has answered for email e and the store call that follows it
\* has not been issued yet
PendingStore(e) ==
    /\ state \in {"PROCESSING_COMMENTERS", "PROCESSING_LIKERS"}
    /\ pc = "store"
    /\ email = e
    /\ ~(halt = "exception" /\ failedAt \in StoreOps)

PendingUpdates(e) == IF PendingStore(e) /\ existing # <<>> THEN 1 ELSE 0

PendingCreates(e) == IF PendingStore(e) /\ existing = <<>> THEN 1 ELSE 0

\* C11: when the pipeline has run twice on a person whose email the store
\* already holds (find-by-email answered with a match both times, and never
\* without one), exactly two update calls and no create call have been issued
\* for that email.
C11_TwiceOnExistingEmailUpdatesTwice ==
    \A e \in DOMAIN ledger :
        (ledger[e].found = 2 /\ ledger[e].missing = 0 /\ ~PendingStore(e)) =>
            /\ ledger[e].updates = 2
            /\ ledger[e].creates = 0

C11_Witness ==
    /\ cycle = 2
    /\ \E e \in DOMAIN ledger :
           /\ ledger[e] = [found |-> 2, missing |-> 0, creates |-> 0, updates |-> 2]
           /\ person = Ada
           /\ email = e
           /\ pc = "ret"

\* C12 as stated: no email has more than one create call over the run.
C12_CreatedAtMostOncePerEmail ==
    \A e \in DOMAIN ledger : ledger[e].creates <= 1

\* C12, amended: over the whole run a create call is issued exactly for the
\* encounters in which find-by-email returned no match and an update call
\* exactly for the encounters in which it returned one, whatever was created
\* before; no other store call (no delete) is ever issued.
C12_CreateExactlyOnEmptyLookup ==
    /\ \A e \in DOMAIN ledger :
           /\ ledger[e].creates + PendingCreates(e) = ledger[e].missing
           /\ ledger[e].updates + PendingUpdates(e) = ledger[e].found
    /\ \A n \in DOMAIN calls : calls[n].op \in RecordOps

C12_Witness ==
    \E e \in DOMAIN ledger :
        /\ ledger[e] = [found |-> 1, missing |-> 1, creates |-> 1, updates |-> 1]
        /\ email = e
        /\ pc = "ret"
        /\ CallsOf("update_record") = 1

(***************************************************************************)
(* Configuration (SpecConfig)                                              *)
(***************************************************************************)
\* C13: in every environment startup goes through; if any of the six
\* credentials is absent or empty, mock is true and each of the five adapters
\* is constructed in simulated mode; mock is false only when all six are set.
C13_MissingCredentialMeansAllSimulated ==
    /\ (state = "START" /\ Running) => ENABLED Startup
    /\ state # "START" =>
           /\ mock <=> (\E c \in Credentials : c \notin env)
           /\ \A a \in Adapters : clientMock[a] = mock

C13_Witness ==
    /\ state = "IDLE"
    /\ env = Credentials \ {"AIRTABLE_BASE_ID"}
    /\ mock
    /\ \A a \in Adapters : clientMock[a]

(***************************************************************************)
(* The order of a cycle                                                    *)
(***************************************************************************)
\* the steps of the driver's position inside a cycle, in their order
CycleSteps ==
    { <<"IDLE", "FETCHING_COMMENTERS">>,
      <<"FETCHING_COMMENTERS", "DELAY">>,
      <<"DELAY", "PROCESSING_COMMENTERS">>,
      <<"PROCESSING_COMMENTERS", "FETCHING_LIKERS">>,
      <<"FETCHING_LIKERS", "PROCESSING_LIKERS">>,
      <<"PROCESSING_LIKERS", "TRIGGERING_NEXT">> }

\* the steps that leave a cycle or lead to one
OuterSteps ==
    { <<"START", "IDLE">>,
      <<"TRIGGERING_NEXT", "SLEEPING">>,
      <<"TRIGGERING_NEXT", "RETURNED">>,
      <<"SLEEPING", "IDLE">> }

\* no record is being processed
NoneInFlight == pc \in {"idle", "ret"}

\* C14: the driver goes through the states of a cycle only in the order
\* FETCHING_COMMENTERS, delay, PROCESSING_COMMENTERS, FETCHING_LIKERS,
\* PROCESSING_LIKERS, TRIGGERING_NEXT; no commenter is processed before a
\* non-zero pause that follows the commenters fetch; the likers are fetched
\* only when every commenter has been processed; the trigger is invoked only
\* when the last liker has been processed.
C14_CycleOrder ==
    /\ [][state' # state => <<state, state'>> \in CycleSteps \cup OuterSteps]_vars
    /\ [][(state' = "PROCESSING_COMMENTERS" /\ state # state') =>
              (state = "DELAY" /\ waited' > waited /\ processed' = 0)]_vars
    /\ [](state \in {"FETCHING_COMMENTERS", "DELAY"} => processed = 0)
    /\ [](processed > 0 => waited > 0)
    /\ [](state = "FETCHING_LIKERS" =>
              (processed = Len(commenters) /\ NoneInFlight /\ likers = <<>>))
    /\ [](state = "PROCESSING_LIKERS" => processed >= Len(commenters))
    /\ []((state = "TRIGGERING_NEXT" \/ triggers > 0) =>
              (processed = Len(commenters) + Len(likers) /\ NoneInFlight))

C14_Witness ==
    /\ state = "SLEEPING"
    /\ Len(commenters) = 2
    /\ Len(likers) = 1
    /\ processed = 3
    /\ waited = WaitSeconds
    /\ triggers = 1

(***************************************************************************)
(* The execution modes                                                     *)
(***************************************************************************)
\* main has parsed its arguments
Started == state # "START"

\* C15: with --once the driver runs exactly one cycle and then terminates;
\* without --once it never returns by itself, it sleeps only after a full
\* cycle, and the process is over only by an external interrupt.
C15_OnceOneCycleLoopUntilInterrupt ==
    /\ (Started /\ once) =>
           /\ cycle <= 1
           /\ state # "SLEEPING"
           /\ state = "RETURNED" => (cycle = 1 /\ triggers = 1)
    /\ (Started /\ ~once) =>
           /\ state # "RETURNED"
           /\ state = "SLEEPING" =>
                  (triggers = 1 /\ processed = Len(commenters) + Len(likers))
           /\ Terminated => halt = "KeyboardInterrupt"

\* C16: started with no flags, the driver runs one cycle and then terminates:
\* it never sleeps and never starts a second cycle.
C16_NoFlagsRunsOnce ==
    (Started /\ argv = {}) =>
        /\ state # "SLEEPING"
        /\ cycle <= 1

(***************************************************************************)
(* The calls of one record                                                 *)
(***************************************************************************)
\* the order of the calls of process_person; the store call is one step
RecordOrder ==
    <<"enrich", "list_records_matching_email", "store", "add_lead", "upsert_contact">>

StepOf(op) == IF op \in StoreOps THEN "store" ELSE op

\* the methods called for the current record, in the order of the calls
OpsCalled == [n \in DOMAIN calls |-> calls[n].op]

\* C17: the calls made for one record are, in this order, enrich,
\* find-by-email, the store create or update, add_lead, upsert_contact (for
\* Ada with the simulated adapters: update of "rec123", then add_lead, then
\* upsert_contact); each call is made only when the one before it has
\* returned, and a record is started only when no call of the record before
\* it is outstanding.
C17_CallsInOrderRecordsSequential ==
    /\ [](/\ Len(calls) <= Len(RecordOrder)
          /\ \A n \in DOMAIN calls :
                 /\ StepOf(calls[n].op) = RecordOrder[n]
                 /\ n < Len(calls) => calls[n].outcome # "raised"
          /\ calls # <<>> => calls[1].arg = person)
    /\ []((~mock \/ opaque # {} \/ person # Ada \/ pc # "ret") \/
              /\ OpsCalled = <<"enrich", "list_records_matching_email", "update_record",
                               "add_lead", "upsert_contact">>
              /\ calls[3].id = "rec123")
    /\ [][calls' # calls =>
              \/ /\ calls' = <<>>
                 /\ NoneInFlight
              \/ /\ Len(calls') = Len(calls) + 1
                 /\ SubSeq(calls', 1, Len(calls)) = calls
                 /\ person' = person]_vars
    /\ [][(processed' # processed \/ person' # person) => NoneInFlight]_vars

C17_Witness ==
    /\ mock /\ opaque = {}
    /\ state = "PROCESSING_COMMENTERS"
    /\ person = Ada
    /\ pc = "ret"
    /\ Len(calls) = 5
    /\ calls[3].op = "update_record"
    /\ calls[3].id = "rec123"
    /\ calls[5].op = "upsert_contact"

(***************************************************************************)
(* The identity email                                                      *)
(***************************************************************************)
\* the email a call was made with: the lookup's argument, the Email field of
\* the store call, the email of the lead and of the contact payload
EmailOf(c) ==
    IF c.op = "list_records_matching_email" THEN c.arg
    ELSE IF c.op \in StoreOps THEN c.arg["Email"]
    ELSE c.arg["email"]

\* the enriched email list has a later entry with an email
LaterEntryHasEmail(e) ==
    /\ "email" \in DOMAIN e
    /\ \E n \in 2..Len(e["email"]) : Truthy(Get(e["email"][n], "email"))

\* C18: every call made for a record after its enrichment (the lookup, the
\* store create or update, add_lead, upsert_contact) carries the email of the
\* first entry of the enriched email list; a record whose first entry has no
\* email gets none of these calls, also when a later entry has an email.
C18_FirstEntryEmailEverywhere ==
    /\ \A n \in DOMAIN calls :
           calls[n].op # "enrich" =>
               /\ ~NoResolvableEmail(enriched)
               /\ EmailOf(calls[n]) = enriched["email"][1]["email"]
    /\ (EnrichReturned /\ NoResolvableEmail(enriched) /\ LaterEntryHasEmail(enriched)) =>
           /\ pc \in {"check", "ret"}
           /\ OpsCalled = <<"enrich">>

\* a record whose list has two different emails was processed to the end
C18_Witness ==
    /\ pc = "ret"
    /\ Len(calls) = 5
    /\ Len(enriched["email"]) = 2
    /\ enriched["email"][2]["email"] = OtherEmail
    /\ \A n \in 2..5 : EmailOf(calls[n]) = enriched["email"][1]["email"]
    /\ enriched["email"][1]["email"] # OtherEmail

(***************************************************************************)
(* Non-simulated mode with the adapters of the repository                  *)
(***************************************************************************)
\* main has started with every credential set and its adapters are the
\* classes of the repository
RealMode == Started /\ env = Credentials /\ opaque = {}

\* run_cycle has returned in the current cycle
CycleReturned ==
    state \in {"SLEEPING", "RETURNED"} \/ (state = "IDLE" /\ cycle > 0)

====
